---- MODULE Spec2Model ----
(***************************************************************************)
(* A model of the two scripts of the repository:                           *)
(*   experimentations/datagen/fx.py   : _convolve, _apply_fxs              *)
(*   resources/demos/gansynth.py      : get_envelope, combine_notes        *)
(*                                                                         *)
(* Times (seconds) are IEEE-754 doubles, and every sample index is          *)
(* computed from them in double arithmetic, as float64 does.  Sample       *)
(* values are exact rationals <<n, d>>, d > 0: the rounding of float64 in  *)
(* the last bit of a sample value is not part of the model.  numpy arrays  *)
(* of samples are kept as [len, nz]: the length and the map from the       *)
(* indices of the non-zero samples to their values, so that buffers of     *)
(* tens of thousands of samples (16000 per second) stay small.             *)
(***************************************************************************)
EXTENDS Integers, Sequences, FiniteSets, TLC

VARIABLES
    fx_pc,        \* position in _apply_fxs: "idle", "loop", "done",
                  \* "ValueError"
    cfg,          \* ptml configuration: [s_rate, conv_mod]
    dry,          \* the dry signal passed to _apply_fxs
    fxs,          \* the list of fx signals passed to _apply_fxs
    fx_k,         \* number of fxs already iterated by the for loop
    wet_signals,  \* the list built (and returned) by _apply_fxs
    calls,        \* the invocations of func so far, in order: <<dry, fx>>
    env_pc,       \* get_envelope called on its own: "idle", "done"
    env_in,       \* its arguments [t_note_length, t_attack, t_release, sr]
    envelope,     \* what it returned: [ok, len, val]
    mix_pc,       \* position in combine_notes
    sr,           \* combine_notes' sample rate argument
    notes,        \* its notes: [t_start, t_end, vel, audio]
    note_i,       \* number of notes already overlaid by the for loop
    audio_clip,   \* the clip buffer: [len, nz, nan]
    spans         \* <<clip_start, length>> of every note overlaid so far

fx_vars == <<fx_pc, cfg, dry, fxs, fx_k, wet_signals, calls>>
env_vars == <<env_pc, env_in, envelope>>
mix_vars == <<mix_pc, sr, notes, note_i, audio_clip, spans>>

----------------------------------------------------------------------------
(* Bounds of the model. *)

MaxFrames == 2
MaxFxs == 2

----------------------------------------------------------------------------
(* fx.py: signals and the helpers of datagen.utils / parser._toml.          *)

Rates == {8000, 16000}
ConvModes == {"full", "same", "valid"}
Configs == [s_rate : Rates, conv_mod : ConvModes]

\* A signal object: frame_count(), channel count, sample rate.
Signals == [frames : 0..MaxFrames, channels : {1, 2}, rate : Rates, ops : {<<>>}]

NoSignal == [frames |-> 0, channels |-> 1, rate |-> 16000, ops |-> <<>>]
NoConfig == [s_rate |-> 16000, conv_mod |-> "full"]

CeilDiv(a, b) == (a + b - 1) \div b

\* utls.__set_sample_rate(sig, rate): resample to the configured rate.
set_sample_rate(sig, rate) ==
    [frames   |-> CeilDiv(sig.frames * rate, sig.rate),
     channels |-> sig.channels,
     rate     |-> rate,
     ops      |-> Append(sig.ops, "resample")]

\* utls.__is_mono(sig)
is_mono(sig) == sig.channels = 1

\* utls.__convert(sig, utls.__mono): downmix to a 1-D float array.
convert_mono(sig) ==
    [ndim |-> 1, len |-> sig.frames, chans |-> 1, rate |-> sig.rate,
     norm |-> "none", pcm |-> FALSE,
     ops |-> Append(sig.ops, "mono")]

\* utls.__convert(sig): a 2-D float array, one column per channel.
convert(sig) ==
    [ndim |-> 2, len |-> sig.frames, chans |-> sig.channels, rate |-> sig.rate,
     norm |-> "none", pcm |-> FALSE,
     ops |-> Append(sig.ops, "keep")]

\* utls.__normalize(arr) is peak normalization, utls.__normalize(arr, sum)
\* is sum normalization.
normalize(arr, strategy) ==
    [arr EXCEPT !.norm = strategy, !.ops = Append(@, strategy)]

\* utls.__float2pcm(arr)
float2pcm(arr) == [arr EXCEPT !.pcm = TRUE, !.ops = Append(@, "pcm")]

Max2(a, b) == IF a >= b THEN a ELSE b
Min2(a, b) == IF a <= b THEN a ELSE b

\* scipy.signal.convolve(a, b, mode) raises ValueError when an input is
\* empty.
ConvolveRaises(a, b) == a.len = 0 \/ b.len = 0

\* scipy.signal.convolve(a, b, mode) of non-empty inputs: both have the same
\* number of dimensions, which is also that of the result; the length
\* follows the mode.
ConvLen(n, m, mode) ==
    IF mode = "full" THEN n + m - 1
    ELSE IF mode = "same" THEN n
    ELSE Max2(n, m) - Min2(n, m) + 1

convolve(a, b, mode) ==
    [ndim |-> a.ndim,
     len |-> ConvLen(a.len, b.len, mode),
     chans |-> IF a.ndim = 2 THEN ConvLen(a.chans, b.chans, mode) ELSE 1,
     rate |-> a.rate,
     norm |-> "none", pcm |-> FALSE,
     ops |-> <<"convolve">>,
     in_dry |-> a, in_fx |-> b]

----------------------------------------------------------------------------
(* fx.py: _convolve *)

\* fx.py line 19: the branch test.
EitherMono(d, f) == is_mono(d) \/ is_mono(f)

\* fx.py lines 19-24: the two inputs converted and normalized.
PrepareInputs(d, f) ==
    IF EitherMono(d, f)
    THEN <<normalize(convert_mono(d), "peak"), normalize(convert_mono(f), "peak")>>
    ELSE <<normalize(convert(d), "sum"), normalize(convert(f), "sum")>>

\* fx.py line 27: the normalization of the convolution result.
\* Variant: the result is peak-normalized whatever its layout.
PostNormalizeAlwaysPeak(conv) == normalize(conv, "peak")

PostNormalize(conv) ==
    IF conv.ndim = 2 THEN normalize(conv, "sum") ELSE normalize(conv, "peak")

\* fx.py lines 17-26: the call of convolve raises, and _convolve with it.
_convolve_raises(d0, f0, c) ==
    LET d == set_sample_rate(d0, c.s_rate)
        f == set_sample_rate(f0, c.s_rate)
        p == PrepareInputs(d, f)
    IN  ConvolveRaises(p[1], p[2])

\* fx.py lines 16-30, when convolve returns.
_convolve(d0, f0, c) ==
    LET d == set_sample_rate(d0, c.s_rate)
        f == set_sample_rate(f0, c.s_rate)
        p == PrepareInputs(d, f)
        conv == convolve(p[1], p[2], c.conv_mod)
    IN  float2pcm(PostNormalize(conv))

----------------------------------------------------------------------------
(* fx.py: _apply_fxs *)

\* fx.py line 35
\* Variant: no early return.
FrameCountIsZeroNever(d) == FALSE

FrameCountIsZero(d) == d.frames = 0

\* fx.py line 39
\* Variant: the wet signal is put at the front of the list.
AppendWetFront(ws, w) == <<w>> \o ws

AppendWet(ws, w) == Append(ws, w)

FxLists == UNION {[1..n -> Signals] : n \in 0..MaxFxs}

\* fx.py lines 32-36: the call, the empty list, the early return.
ApplyFxsCall ==
    /\ fx_pc = "idle"
    /\ \E d \in Signals, l \in FxLists, c \in Configs :
         /\ dry' = d
         /\ fxs' = l
         /\ cfg' = c
         /\ fx_pc' = IF FrameCountIsZero(d) THEN "done" ELSE "loop"
    /\ wet_signals' = <<>>
    /\ fx_k' = 0
    /\ calls' = <<>>
    /\ UNCHANGED <<env_vars, mix_vars>>

\* fx.py lines 38-39: one iteration of the for loop.
ApplyFxsIter ==
    /\ fx_pc = "loop"
    /\ fx_k < Len(fxs)
    /\ LET fx == fxs[fx_k + 1] IN
         /\ ~_convolve_raises(dry, fx, cfg)
         /\ calls' = Append(calls, <<dry, fx>>)
         /\ wet_signals' = AppendWet(wet_signals, _convolve(dry, fx, cfg))
    /\ fx_k' = fx_k + 1
    /\ UNCHANGED <<fx_pc, cfg, dry, fxs>>
    /\ UNCHANGED <<env_vars, mix_vars>>

\* fx.py line 39: func is invoked and raises; the exception leaves
\* _apply_fxs, which returns nothing.
ApplyFxsRaise ==
    /\ fx_pc = "loop"
    /\ fx_k < Len(fxs)
    /\ LET fx == fxs[fx_k + 1] IN
         /\ _convolve_raises(dry, fx, cfg)
         /\ calls' = Append(calls, <<dry, fx>>)
    /\ fx_pc' = "ValueError"
    /\ UNCHANGED <<cfg, dry, fxs, fx_k, wet_signals>>
    /\ UNCHANGED <<env_vars, mix_vars>>

\* fx.py line 41: the loop is exhausted, the list is returned.
ApplyFxsReturn ==
    /\ fx_pc = "loop"
    /\ fx_k = Len(fxs)
    /\ fx_pc' = "done"
    /\ UNCHANGED <<cfg, dry, fxs, fx_k, wet_signals, calls>>
    /\ UNCHANGED <<env_vars, mix_vars>>

FxInit ==
    /\ fx_pc = "idle"
    /\ cfg = NoConfig
    /\ dry = NoSignal
    /\ fxs = <<>>
    /\ fx_k = 0
    /\ wet_signals = <<>>
    /\ calls = <<>>

----------------------------------------------------------------------------
(* Exact rational arithmetic for the sample values, and for writing the    *)
(* times down.  A rational is <<n, d>> with d > 0, in lowest terms.        *)

Abs(x) == IF x < 0 THEN -x ELSE x

RECURSIVE GCD(_, _)
GCD(a, b) == IF b = 0 THEN a ELSE GCD(b, a % b)

Norm(n, d) == LET g == GCD(Abs(n), d) IN <<n \div g, d \div g>>

Zero == <<0, 1>>
One == <<1, 1>>
Num(k) == <<k, 1>>

RAdd(p, q) ==
    LET g == GCD(p[2], q[2])
        a == q[2] \div g
        b == p[2] \div g
    IN  Norm(p[1] * a + q[1] * b, p[2] * a)

RMul(p, q) ==
    LET g1 == GCD(Abs(p[1]), q[2])
        g2 == GCD(Abs(q[1]), p[2])
    IN  IF p[1] = 0 \/ q[1] = 0 THEN Zero
        ELSE <<(p[1] \div g1) * (q[1] \div g2), (p[2] \div g2) * (q[2] \div g1)>>

\* p / q for q # 0
RDiv(p, q) ==
    IF q[1] > 0 THEN RMul(p, <<q[2], q[1]>>) ELSE RMul(p, <<-q[2], -q[1]>>)

RLess(p, q) ==
    LET g == GCD(p[2], q[2]) IN p[1] * (q[2] \div g) < q[1] * (p[2] \div g)

RLeq(p, q) == p = q \/ RLess(p, q)

RMax(p, q) == IF RLess(p, q) THEN q ELSE p
RAbs(p) == <<Abs(p[1]), p[2]>>

----------------------------------------------------------------------------
(* IEEE-754 double precision for the times in seconds.                      *)
(* A natural number is the sequence of its digits in base Limb, lowest     *)
(* first, without a leading zero digit: <<>> is 0.  A dyadic is [m, x],    *)
(* the value m * 2^x, with m odd (or m = <<>> and x = 0); a non-negative   *)
(* double is a dyadic whose m has at most MantissaBits bits.                *)

\* The significand of a Python float (numpy float64).
MantissaBits == 53

LimbBits == 14
Limb == 2 ^ LimbBits

RECURSIVE LimbsOf(_)
LimbsOf(n) == IF n = 0 THEN <<>> ELSE <<n % Limb>> \o LimbsOf(n \div Limb)

RECURSIVE IntOf(_)
IntOf(b) == IF b = <<>> THEN 0 ELSE b[1] + Limb * IntOf(Tail(b))

LimbAt(b, i) == IF i <= Len(b) THEN b[i] ELSE 0

RECURSIVE Trim(_)
Trim(b) ==
    IF b = <<>> \/ b[Len(b)] # 0 THEN b ELSE Trim(SubSeq(b, 1, Len(b) - 1))

Reverse(b) == [i \in 1..Len(b) |-> b[Len(b) + 1 - i]]

\* The number of bits of a digit, and of its zero bits below the lowest one.
RECURSIVE BitLenOf(_)
BitLenOf(n) == IF n = 0 THEN 0 ELSE 1 + BitLenOf(n \div 2)

RECURSIVE LowZerosOf(_)
LowZerosOf(n) == IF n % 2 = 1 THEN 0 ELSE 1 + LowZerosOf(n \div 2)

BitLen(b) ==
    IF b = <<>> THEN 0 ELSE LimbBits * (Len(b) - 1) + BitLenOf(b[Len(b)])

\* For b # 0.
LowZeros(b) ==
    LET j == CHOOSE i \in 1..Len(b) : b[i] # 0 /\ \A h \in 1..(i - 1) : b[h] = 0
    IN  LimbBits * (j - 1) + LowZerosOf(b[j])

\* Bit i of b, the lowest being bit 0.
BitAt(b, i) == (LimbAt(b, i \div LimbBits + 1) \div 2 ^ (i % LimbBits)) % 2

\* Some bit of b below bit i is set.
AnyBitBelow(b, i) ==
    \E j \in 1..Len(b) :
        \/ j <= i \div LimbBits /\ b[j] # 0
        \/ j = i \div LimbBits + 1 /\ b[j] % 2 ^ (i % LimbBits) # 0

RECURSIVE AddFrom(_, _, _, _)
AddFrom(a, b, i, c) ==
    IF i > Len(a) /\ i > Len(b) THEN (IF c = 0 THEN <<>> ELSE <<c>>)
    ELSE LET s == LimbAt(a, i) + LimbAt(b, i) + c
         IN  <<s % Limb>> \o AddFrom(a, b, i + 1, s \div Limb)

BAdd(a, b) == AddFrom(a, b, 1, 0)

RECURSIVE SubFrom(_, _, _, _)
SubFrom(a, b, i, c) ==
    IF i > Len(a) THEN <<>>
    ELSE LET s == Limb + LimbAt(a, i) - LimbAt(b, i) - c
         IN  <<s % Limb>> \o SubFrom(a, b, i + 1, IF s < Limb THEN 1 ELSE 0)

\* a - b for a >= b
BSub(a, b) == Trim(SubFrom(a, b, 1, 0))

RECURSIVE LessFrom(_, _, _)
LessFrom(a, b, i) ==
    IF i = 0 THEN FALSE
    ELSE IF a[i] # b[i] THEN a[i] < b[i]
    ELSE LessFrom(a, b, i - 1)

BLess(a, b) ==
    IF Len(a) # Len(b) THEN Len(a) < Len(b) ELSE LessFrom(a, b, Len(a))

RECURSIVE MulFrom(_, _, _, _)
MulFrom(b, k, i, c) ==
    IF i > Len(b) THEN LimbsOf(c)
    ELSE LET s == k * b[i] + c
         IN  <<s % Limb>> \o MulFrom(b, k, i + 1, s \div Limb)

\* b * k for an integer 0 <= k < 2^16
BMul(b, k) == IF k = 0 THEN <<>> ELSE MulFrom(b, k, 1, 0)

\* b * 2^k
ShiftLeft(b, k) ==
    IF b = <<>> THEN b
    ELSE LET shifted == BMul(b, 2 ^ (k % LimbBits))
         IN  IF k < LimbBits THEN shifted
             ELSE [i \in 1..(k \div LimbBits) |-> 0] \o shifted

\* b \div 2^k
ShiftRight(b, k) ==
    LET q == k \div LimbBits
        r == k % LimbBits
    IN  IF q >= Len(b) THEN <<>>
        ELSE Trim([i \in 1..(Len(b) - q) |->
                     b[q + i] \div 2 ^ r
                     + (LimbAt(b, q + i + 1) % 2 ^ r) * 2 ^ (LimbBits - r)])

Dyadic(m, x) ==
    IF m = <<>> THEN [m |-> <<>>, x |-> 0]
    ELSE LET z == LowZeros(m) IN [m |-> ShiftRight(m, z), x |-> x + z]

DInt(k) == Dyadic(LimbsOf(k), 0)

\* The digits of p in units of 2^x, for x <= p.x.
Aligned(p, x) == ShiftLeft(p.m, p.x - x)

\* Exact sum, difference (p >= q), product by an integer, and order.
DAdd(p, q) ==
    LET x == Min2(p.x, q.x) IN Dyadic(BAdd(Aligned(p, x), Aligned(q, x)), x)

DSub(p, q) ==
    LET x == Min2(p.x, q.x) IN Dyadic(BSub(Aligned(p, x), Aligned(q, x)), x)

DMul(p, k) == Dyadic(BMul(p.m, k), p.x)

DLess(p, q) ==
    LET x == Min2(p.x, q.x) IN BLess(Aligned(p, x), Aligned(q, x))

DLeq(p, q) == ~DLess(q, p)

DMin(p, q) == IF DLess(q, p) THEN q ELSE p

RECURSIVE DMaxOf(_)
DMaxOf(S) ==
    LET one == CHOOSE d \in S : TRUE
    IN  IF S = {one} THEN one
        ELSE LET others == DMaxOf(S \ {one})
             IN  IF DLess(one, others) THEN others ELSE one

\* The largest integer not above p.
DFloor(p) ==
    IF p.x >= 0 THEN IntOf(ShiftLeft(p.m, p.x)) ELSE IntOf(ShiftRight(p.m, -p.x))

\* m * 2^x (and, when sticky, a little more: less than one unit of the
\* lowest bit of m) rounded to the nearest double, ties to the even one.
RoundToDouble(m, x, sticky) ==
    IF BitLen(m) <= MantissaBits THEN Dyadic(m, x)
    ELSE LET s == BitLen(m) - MantissaBits
             q == ShiftRight(m, s)
             low == sticky \/ AnyBitBelow(m, s - 1)
             up == BitAt(m, s - 1) = 1 /\ (low \/ q[1] % 2 = 1)
         IN  Dyadic(IF up THEN BAdd(q, <<1>>) ELSE q, x + s)

\* The digits of r / d after the point, highest first, for r < d: `more`
\* digits from the first significant one on, and the remainder left.
RECURSIVE FractionLimbs(_, _, _, _)
FractionLimbs(r, d, started, more) ==
    IF more = 0 THEN [limbs |-> <<>>, rem |-> r]
    ELSE LET digit == (r * Limb) \div d
             rest == FractionLimbs((r * Limb) % d, d, started \/ digit # 0,
                                   IF started \/ digit # 0 THEN more - 1
                                   ELSE more)
         IN  [limbs |-> <<digit>> \o rest.limbs, rem |-> rest.rem]

\* The double a time is held in: the one nearest to the rational q >= 0
\* (whose denominator is below 2^17).
Dbl(q) ==
    IF q[1] = 0 THEN Dyadic(<<>>, 0)
    ELSE LET ip == LimbsOf(q[1] \div q[2])
             f == FractionLimbs(q[1] % q[2], q[2], ip # <<>>,
                                MantissaBits \div LimbBits + 2)
         IN  RoundToDouble(Trim(Reverse(f.limbs) \o ip),
                           -(LimbBits * Len(f.limbs)), f.rem # 0)

\* The double operations of the code: the exact result, rounded.
DblAdd(p, q) == LET r == DAdd(p, q) IN RoundToDouble(r.m, r.x, FALSE)
DblSub(p, q) == LET r == DSub(p, q) IN RoundToDouble(r.m, r.x, FALSE)
DblMul(p, k) == LET r == DMul(p, k) IN RoundToDouble(r.m, r.x, FALSE)

\* Python's int() of a float >= 0: truncation.
PyInt(p) == DFloor(p)

\* Python's round() of a float >= 0: to the nearest integer, ties to even.
PyRound(p) ==
    LET f == DFloor(p)
        r == DSub(p, DInt(f))
        half == Dyadic(<<1>>, -1)
    IN  IF DLess(r, half) THEN f
        ELSE IF DLess(half, r) THEN f + 1
        ELSE IF f % 2 = 0 THEN f ELSE f + 1

----------------------------------------------------------------------------
(* gansynth.py: get_envelope *)

\* gansynth.py line 61: the default arguments.
DefaultAttack == <<1, 100>>
DefaultRelease == <<3, 10>>
DefaultSr == 16000

\* gansynth.py line 63
MaxNoteLength == <<3, 1>>
\* Variant: the note length is not capped.
CapNoteLengthNever(t_note_length) == t_note_length
CapNoteLength(t_note_length) == DMin(t_note_length, Dbl(MaxNoteLength))

\* gansynth.py lines 64-66: int(sr * t), the product being a double
Samples(rate, t) == PyInt(DblMul(t, rate))

\* gansynth.py line 67
TotalLength(i_attack, i_sustain, i_release) == i_sustain + i_release

\* np.linspace(0.0, 1.0, n)[k]
LinspaceUp(n, k) == IF n = 1 THEN Zero ELSE Norm(k, n - 1)

\* np.linspace(1.0, 0.0, n)[k]
LinspaceDown(n, k) == IF n = 1 THEN One ELSE Norm(n - 1 - k, n - 1)

\* gansynth.py line 70: assigning i_attack values to envelope[:i_attack]
\* raises ValueError unless the slice has as many elements (or one value is
\* broadcast).
AttackFits(i_attack, i_tot) == i_attack <= i_tot \/ i_attack = 1

\* gansynth.py lines 63-67: the sample counts, for doubles >= 0.
EnvelopeIndices(t_note_length, t_attack, t_release, rate) ==
    LET t == CapNoteLength(t_note_length)
        i_attack == Samples(rate, t_attack)
        i_sustain == Samples(rate, t)
        i_release == Samples(rate, t_release)
        i_tot == TotalLength(i_attack, i_sustain, i_release)
    IN  [ok |-> AttackFits(i_attack, i_tot), len |-> i_tot,
         i_attack |-> i_attack, i_sustain |-> i_sustain,
         i_release |-> i_release]

\* gansynth.py lines 68-72: sample i of the array of ones after the attack
\* ramp, then the release ramp, were assigned into it, in that order.
EnvelopeAt(ix, i) ==
    IF i >= ix.i_sustain THEN LinspaceDown(ix.i_release, i - ix.i_sustain)
    ELSE IF i < ix.i_attack THEN LinspaceUp(ix.i_attack, i)
    ELSE One

\* gansynth.py lines 61-73: the array returned.
get_envelope(t_note_length, t_attack, t_release, rate) ==
    LET ix == EnvelopeIndices(t_note_length, t_attack, t_release, rate)
    IN  [ok |-> ix.ok,
         len |-> ix.len,
         val |-> [i \in 0..(ix.len - 1) |-> EnvelopeAt(ix, i)]]

NoEnvelope == [ok |-> FALSE, len |-> 0, val |-> <<>>]
NoEnvIn == [t_note_length |-> Zero, t_attack |-> Zero, t_release |-> Zero,
            sr |-> 0]

MaxHalfSeconds == 7
MaxShort == 3

\* Times are written as rationals and held in the nearest double.
\* Durations: 0, 0.5, ... (beyond the 3.0 s cap), a few 1/256ths, and
\* decimals whose product with the rate is rounded by the multiplication.
NoteLengths ==
    {Norm(k, 2) : k \in 0..MaxHalfSeconds}
    \cup {Norm(k, 256) : k \in 1..MaxShort}
    \cup {<<29, 100>>, <<1001, 1000>>}
AttackTimes == {Zero, DefaultAttack, <<1, 2>>, <<29, 100>>}
ReleaseTimes == {Zero, DefaultRelease, <<1, 100>>, <<29, 100>>}
EnvelopeRates == {100, 1000, DefaultSr}

\* A call of get_envelope with arguments of its own.
GetEnvelope ==
    /\ env_pc = "idle"
    /\ \E t \in NoteLengths, a \in AttackTimes, r \in ReleaseTimes,
          rate \in EnvelopeRates :
         /\ env_in' = [t_note_length |-> t, t_attack |-> a, t_release |-> r,
                       sr |-> rate]
         /\ envelope' = get_envelope(Dbl(t), Dbl(a), Dbl(r), rate)
    /\ env_pc' = "done"
    /\ UNCHANGED <<fx_vars, mix_vars>>

EnvInit ==
    /\ env_pc = "idle"
    /\ env_in = NoEnvIn
    /\ envelope = NoEnvelope

----------------------------------------------------------------------------
(* numpy arrays of samples: [len, nz, nan].  nz maps the indices (from 0)   *)
(* of the non-zero samples to their values; nan says that a division by    *)
(* zero has left nan or inf in the array.                                  *)

ArrZeros(n) == [len |-> n, nz |-> [i \in {} |-> Zero], nan |-> FALSE]

\* An array of n samples given by its non-zero <<index, value>> pairs.
MkArr(n, pairs) ==
    [len |-> n,
     nz |-> [i \in {p[1] : p \in pairs} |-> (CHOOSE p \in pairs : p[1] = i)[2]],
     nan |-> FALSE]

At(a, i) == IF i \in DOMAIN a.nz THEN a.nz[i] ELSE Zero

\* f without the indices it maps to zero.
DropZeros(f) == [i \in {j \in DOMAIN f : f[j] # Zero} |-> f[i]]

\* a[:n]
SliceTo(a, n) ==
    [a EXCEPT !.len = Min2(a.len, n),
              !.nz = [i \in {j \in DOMAIN a.nz : j < n} |-> a.nz[i]]]

\* numpy broadcasting of two 1-D shapes.
Broadcasts(n, m) == n = m \/ n = 1 \/ m = 1

\* a * env for lengths that broadcast: element by element when they are
\* equal, and an operand of one sample is stretched to the other's length.
MulEnvelope(a, env) ==
    IF a.len = 1 /\ env.len # 1
    THEN [a EXCEPT !.len = env.len,
                   !.nz = DropZeros([i \in 0..(env.len - 1) |->
                                       RMul(At(a, 0), EnvelopeAt(env, i))])]
    ELSE IF env.len = 1 /\ a.len # 1
    THEN [a EXCEPT !.nz = DropZeros([i \in DOMAIN a.nz |->
                                       RMul(a.nz[i], EnvelopeAt(env, 0))])]
    ELSE [a EXCEPT !.nz = DropZeros([i \in DOMAIN a.nz |->
                                       RMul(a.nz[i], EnvelopeAt(env, i))])]

\* The largest f[i] over the indices i of I, a non-empty subset of lo..hi.
RECURSIVE MaxIn(_, _, _, _)
MaxIn(f, I, lo, hi) ==
    IF lo = hi THEN f[lo]
    ELSE LET mid == (lo + hi) \div 2
             lower == {i \in I : i <= mid}
             upper == I \ lower
         IN  IF upper = {} THEN MaxIn(f, lower, lo, mid)
             ELSE IF lower = {} THEN MaxIn(f, upper, mid + 1, hi)
             ELSE RMax(MaxIn(f, lower, lo, mid), MaxIn(f, upper, mid + 1, hi))

\* a.max(), for len(a) > 0: the zero samples count when there are any.
ArrMax(a) ==
    IF DOMAIN a.nz = {} THEN Zero
    ELSE LET m == MaxIn(a.nz, DOMAIN a.nz, 0, a.len - 1)
         IN  IF Cardinality(DOMAIN a.nz) < a.len THEN RMax(Zero, m) ELSE m

\* a /= q: a division by zero leaves nan (0/0) and inf in the array.
ArrDiv(a, q) ==
    IF a.nan \/ q = Zero THEN [a EXCEPT !.nan = TRUE]
    ELSE [a EXCEPT !.nz = [i \in DOMAIN a.nz |-> RDiv(a.nz[i], q)]]

\* a *= q
ArrScale(a, q) ==
    [a EXCEPT !.nz = DropZeros([i \in DOMAIN a.nz |-> RMul(a.nz[i], q)])]

\* The indices of the clip that the non-zero samples of a note laid at
\* start fall on; a slice ends where the clip ends.
Landing(clip, start, note) ==
    {i \in {start + j : j \in DOMAIN note.nz} : i < clip.len}

\* clip[start:start+note.len] += note, for a slice as long as the note (or
\* an empty one); the sums are exact.
Overlay(clip, start, note) ==
    [clip EXCEPT
       !.nan = clip.nan \/ (note.nan /\ start < clip.len),
       !.nz = DropZeros(
                [i \in DOMAIN clip.nz \cup Landing(clip, start, note) |->
                   RAdd(At(clip, i), At(note, i - start))])]

\* The number of elements of the slice a[from:to] of an array of n samples,
\* for 0 <= from <= to.
SliceLen(n, from, to) == Min2(to, n) - Min2(from, n)

----------------------------------------------------------------------------
(* gansynth.py: combine_notes *)

\* gansynth.py line 88
ClipTail == <<3, 1>>
clip_length_of(end_times) == DblAdd(DMaxOf(end_times), Dbl(ClipTail))

\* gansynth.py line 89: int(clip_length) * sr
\* Variant: int(clip_length * sr).
ClipSamplesOfProduct(clip_length, rate) == PyInt(DblMul(clip_length, rate))

ClipSamples(clip_length, rate) == PyInt(clip_length) * rate

\* gansynth.py lines 93-94: the envelope is asked for with get_envelope's
\* defaults, the sample rate included.  The array is get_envelope's; it is
\* read sample by sample through EnvelopeAt.
NoteEnvelope(note) ==
    EnvelopeIndices(DblSub(Dbl(note.t_end), Dbl(note.t_start)),
                    Dbl(DefaultAttack), Dbl(DefaultRelease), DefaultSr)

\* gansynth.py lines 95-96 can be evaluated without a ValueError.
NoteFits(note) ==
    LET env == NoteEnvelope(note)
    IN  env.ok /\ Broadcasts(SliceTo(note.audio, env.len).len, env.len)

\* gansynth.py line 98: audio_note /= audio_note.max()
NormalizeNote(a) == ArrDiv(a, ArrMax(a))

\* gansynth.py line 99: vel / 127.0
VelocityGain(vel) == Norm(vel, 127)

\* gansynth.py lines 93-99: the note's audio as it is added to the clip.
NoteAudio(note) ==
    LET env == NoteEnvelope(note)
        audio_note == MulEnvelope(SliceTo(note.audio, env.len), env)
    IN  ArrScale(NormalizeNote(audio_note), VelocityGain(note.vel))

\* gansynth.py line 101
\* Variant: round(t_start * sr).
ClipStartRounded(t_start, rate) == PyRound(DblMul(Dbl(t_start), rate))

ClipStart(t_start, rate) == PyInt(DblMul(Dbl(t_start), rate))

\* gansynth.py line 103: += writes into the slice, which is never stretched:
\* the note has as many samples as the slice, or one sample.
SliceFits(clip, clip_start, length) ==
    SliceLen(clip.len, clip_start, clip_start + length) = length \/ length = 1

\* gansynth.py lines 106-107
NormalizeClip(clip) == ArrDiv(ArrDiv(clip, ArrMax(clip)), Num(2))

MaxNotes == 2

\* Audio of 4 s at 16 kHz per note, as the generator yields (line 152).
AudioSamples == 4 * DefaultSr
Tone == MkArr(AudioSamples, {<<100, <<1, 2>> >>, <<1000, One>>})
Buzz == MkArr(AudioSamples, {<<1000, <<1, 2>> >>, <<2000, <<-1, 1>> >>})
Silence == MkArr(AudioSamples, {})
\* A row of one sample, which line 96 stretches to the envelope's length.
Click == MkArr(1, {<<0, <<1, 2>> >>})

Note(t_start, t_end, vel, audio) ==
    [t_start |-> t_start, t_end |-> t_end, vel |-> vel, audio |-> audio]

\* Notes as load_midi yields them (lines 52-53): times are doubles, written
\* here as rationals and held in the nearest double.
NoteChoices ==
    { Note(Zero, <<1, 2>>, 127, Tone),
      Note(Zero, <<1, 2>>, 64, Buzz),
      Note(Zero, <<1, 2>>, 127, Silence),
      Note(<<3, 256>>, <<3, 256>>, 127, Tone),
      Note(<<1, 2>>, <<4, 1>>, 64, Tone),
      Note(<<1, 10>>, <<3, 10>>, 127, Tone),
      Note(<<1001, 1000>>, <<3, 2>>, 64, Buzz),
      Note(Zero, Zero, 127, Click) }

\* The rows of audio_notes have one length.
NoteLists ==
    { l \in UNION {[1..n -> NoteChoices] : n \in 1..MaxNotes} :
        \A j, k \in 1..Len(l) : l[j].audio.len = l[k].audio.len }
MixRates == {8000, DefaultSr, 32000}

\* gansynth.py lines 87-89: the call and the allocation of the clip buffer.
CombineNotesCall ==
    /\ mix_pc = "idle"
    /\ \E l \in NoteLists, rate \in MixRates :
         /\ notes' = l
         /\ sr' = rate
         /\ audio_clip' =
              ArrZeros(ClipSamples(
                  clip_length_of({Dbl(l[k].t_end) : k \in 1..Len(l)}), rate))
    /\ note_i' = 0
    /\ spans' = <<>>
    /\ mix_pc' = "loop"
    /\ UNCHANGED <<fx_vars, env_vars>>

\* gansynth.py lines 91-103: one iteration of the for loop.
CombineNotesIter ==
    /\ mix_pc = "loop"
    /\ note_i < Len(notes)
    /\ LET note == notes[note_i + 1]
           length == NoteEnvelope(note).len
           clip_start == ClipStart(note.t_start, sr)
       IN  /\ NoteFits(note)
           /\ SliceFits(audio_clip, clip_start, length)
           /\ audio_clip' = Overlay(audio_clip, clip_start, NoteAudio(note))
           /\ spans' = Append(spans, <<clip_start, length>>)
    /\ note_i' = note_i + 1
    /\ UNCHANGED <<mix_pc, sr, notes>>
    /\ UNCHANGED <<fx_vars, env_vars>>

\* gansynth.py lines 94-103: the iteration raises ValueError instead: the
\* slice of the clip at line 103 has fewer samples than the note (or, with
\* audio shorter than the envelope, line 96 cannot multiply the two).
CombineNotesRaise ==
    /\ mix_pc = "loop"
    /\ note_i < Len(notes)
    /\ LET note == notes[note_i + 1]
           length == NoteEnvelope(note).len
           clip_start == ClipStart(note.t_start, sr)
       IN  /\ ~(NoteFits(note) /\ SliceFits(audio_clip, clip_start, length))
           /\ spans' = Append(spans, <<clip_start, length>>)
    /\ mix_pc' = "ValueError"
    /\ UNCHANGED <<sr, notes, note_i, audio_clip>>
    /\ UNCHANGED <<fx_vars, env_vars>>

\* gansynth.py lines 105-108: the final normalization and the return.
CombineNotesReturn ==
    /\ mix_pc = "loop"
    /\ note_i = Len(notes)
    /\ audio_clip' = NormalizeClip(audio_clip)
    /\ mix_pc' = "done"
    /\ UNCHANGED <<sr, notes, note_i, spans>>
    /\ UNCHANGED <<fx_vars, env_vars>>

MixInit ==
    /\ mix_pc = "idle"
    /\ sr = 0
    /\ notes = <<>>
    /\ note_i = 0
    /\ audio_clip = ArrZeros(0)
    /\ spans = <<>>

vars == <<fx_vars, env_vars, mix_vars>>

Init == FxInit /\ EnvInit /\ MixInit

FxNext == ApplyFxsCall \/ ApplyFxsIter \/ ApplyFxsRaise \/ ApplyFxsReturn

FxSpec == Init /\ [][FxNext]_vars

EnvNext == GetEnvelope

EnvSpec == Init /\ [][EnvNext]_vars

MixNext ==
    CombineNotesCall \/ CombineNotesIter \/ CombineNotesRaise \/ CombineNotesReturn

MixSpec == Init /\ [][MixNext]_vars

----------------------------------------------------------------------------
(* Properties of _apply_fxs and _convolve, under FxSpec.                    *)

\* C1: when the dry signal has zero frames, _apply_fxs returns at once: the
\* list returned is empty and func has not been invoked, whatever fxs holds.
C1_ZeroFramesReturnsEmpty ==
    (fx_pc # "idle" /\ dry.frames = 0) =>
        (fx_pc = "done" /\ wet_signals = <<>> /\ calls = <<>>)

C1_Witness ==
    /\ fx_pc = "done"
    /\ dry.frames = 0
    /\ Len(fxs) >= 2
    /\ fxs[1].frames > 0

\* C2: when the dry signal has frames, func is invoked once per fx, in the
\* order of fxs, always with the same dry signal, and the k-th wet signal is
\* func(dry, fxs[k]); at the return there is one wet signal per fx.  (An
\* invocation that raises is the last one, and adds no wet signal.)
C2_OneWetSignalPerFx ==
    (fx_pc # "idle" /\ dry.frames > 0) =>
        /\ Len(wet_signals) = fx_k
        /\ Len(calls) = (IF fx_pc = "ValueError" THEN fx_k + 1 ELSE fx_k)
        /\ \A k \in 1..Len(calls) : calls[k] = <<dry, fxs[k]>>
        /\ \A k \in 1..fx_k : wet_signals[k] = _convolve(dry, fxs[k], cfg)
        /\ (fx_pc = "done" => fx_k = Len(fxs))

C2_Witness ==
    /\ fx_pc = "done"
    /\ dry.frames > 0
    /\ Len(fxs) = 2
    /\ Len(wet_signals) = 2
    /\ wet_signals[1] # wet_signals[2]

\* C3: the wet signal for fxs[k] was made by resampling both inputs to the
\* configured rate, then, when either is mono, downmixing both to mono with
\* peak normalization before and after the convolution, and otherwise
\* keeping both multi-channel with sum normalization before and after it;
\* the PCM conversion is the last step.
C3_SameStrategyBeforeAndAfter ==
    \A k \in 1..Len(wet_signals) :
        LET w == wet_signals[k]
            mono == dry.channels = 1 \/ fxs[k].channels = 1
            strategy == IF mono THEN "peak" ELSE "sum"
            layout == IF mono THEN "mono" ELSE "keep"
        IN  /\ w.ops = <<"convolve", strategy, "pcm">>
            /\ w.pcm
            /\ w.norm = strategy
            /\ w.ndim = (IF mono THEN 1 ELSE 2)
            /\ w.in_dry.ops = <<"resample", layout, strategy>>
            /\ w.in_fx.ops = <<"resample", layout, strategy>>
            /\ w.in_dry.ndim = w.ndim /\ w.in_fx.ndim = w.ndim
            /\ w.in_dry.rate = cfg.s_rate /\ w.in_fx.rate = cfg.s_rate

C3_Witness ==
    /\ fx_pc = "done"
    /\ Len(wet_signals) = 2
    /\ dry.channels = 2
    /\ fxs[1].channels = 2
    /\ fxs[2].channels = 1
    /\ dry.rate # cfg.s_rate

----------------------------------------------------------------------------
(* Properties of get_envelope, under EnvSpec.                               *)

\* The double d truncated to a whole number is k: k <= d < k + 1.
Truncates(k, d) == DLeq(DInt(k), d) /\ DLess(d, DInt(k + 1))

\* min(note_duration, 3.0) of the call, as a double.
CappedLength ==
    LET t == Dbl(env_in.t_note_length)
    IN  IF DLess(DInt(3), t) THEN DInt(3) ELSE t

\* C5 as stated: the envelope has sr * min(note_duration, 3.0) +
\* sr * release_seconds samples.
C5_LengthIsExactProduct ==
    (env_pc = "done" /\ envelope.ok) =>
        DInt(envelope.len) =
            DblAdd(DblMul(CappedLength, env_in.sr),
                   DblMul(Dbl(env_in.t_release), env_in.sr))

\* C5, amended: the envelope has int(sr * min(note_duration, 3.0)) +
\* int(sr * release_seconds) samples, each product (a double) truncated to
\* whole samples on its own; the attack time has no part in it.
C5_LengthIsTruncatedSum ==
    (env_pc = "done" /\ envelope.ok) =>
        LET i_sustain == DFloor(DblMul(CappedLength, env_in.sr))
            i_release == envelope.len - i_sustain
        IN  /\ Truncates(i_sustain, DblMul(CappedLength, env_in.sr))
            /\ Truncates(i_release, DblMul(Dbl(env_in.t_release), env_in.sr))
            /\ DOMAIN envelope.val = 0..(envelope.len - 1)

C5_Witness ==
    /\ env_pc = "done"
    /\ envelope.ok
    /\ env_in.t_note_length = <<7, 2>>
    /\ env_in.t_attack = <<1, 2>>
    /\ env_in.t_release = <<29, 100>>
    /\ env_in.sr = 100
    /\ envelope.len = 328

\* C6: with the arguments combine_notes passes (defaults, 16000 Hz), for
\* every duration, the envelope starts at 0.0, rises linearly to 1.0 at the
\* end of the attack, is 1.0 until the sustain end, falls linearly to 0.0 at
\* the final sample, and stays within [0, 1].
C6_EnvelopeShape ==
    (/\ env_pc = "done"
     /\ env_in.t_attack = DefaultAttack
     /\ env_in.t_release = DefaultRelease
     /\ env_in.sr = DefaultSr) =>
        LET n == envelope.len
            ia == DFloor(DblMul(Dbl(env_in.t_attack), env_in.sr))
            is == DFloor(DblMul(CappedLength, env_in.sr))
        IN  /\ envelope.ok
            /\ envelope.val[0] = Zero
            /\ envelope.val[n - 1] = Zero
            /\ \A i \in 0..(n - 1) :
                 /\ i < ia => envelope.val[i] = Norm(i, ia - 1)
                 /\ (ia <= i /\ i < is) => envelope.val[i] = One
                 /\ i >= is => envelope.val[i] = Norm(n - 1 - i, n - 1 - is)
                 /\ RLeq(Zero, envelope.val[i])
                 /\ RLeq(envelope.val[i], One)

----------------------------------------------------------------------------
(* Properties of combine_notes, under MixSpec.                              *)

MaxEnd == DMaxOf({Dbl(notes[k].t_end) : k \in 1..Len(notes)})

\* C4 as stated: the clip buffer has (max_end + 3.0) * sr samples.
C4_ClipLengthIsExactProduct ==
    mix_pc # "idle" =>
        DInt(audio_clip.len) = DblMul(DblAdd(MaxEnd, DInt(3)), sr)

\* C4, amended: the clip buffer has int(max_end + 3.0) * sr samples: the
\* seconds are truncated to a whole number before they are turned into
\* samples.
C4_ClipLengthIsWholeSeconds ==
    mix_pc # "idle" =>
        /\ audio_clip.len % sr = 0
        /\ Truncates(audio_clip.len \div sr, DblAdd(MaxEnd, DInt(3)))

C4_Witness ==
    /\ mix_pc = "done"
    /\ Len(notes) = 2
    /\ notes[1].t_end = <<3, 2>>
    /\ notes[2].t_end = <<1, 2>>
    /\ sr = DefaultSr
    /\ audio_clip.len = 4 * DefaultSr

\* C7 as stated: every note is overlaid from sample round(start_time * sr).
C7_ClipStartIsRounded ==
    \A k \in 1..Len(spans) :
        spans[k][1] = PyRound(DblMul(Dbl(notes[k].t_start), sr))

\* C7, amended: every note is overlaid from sample int(start_time * sr):
\* the product (a double) truncated, the last sample at or before it.
C7_ClipStartIsTruncated ==
    \A k \in 1..Len(spans) :
        Truncates(spans[k][1], DblMul(Dbl(notes[k].t_start), sr))

C7_Witness ==
    /\ mix_pc = "done"
    /\ Len(spans) = 2
    /\ notes[1].t_start = <<3, 256>>
    /\ notes[2].t_start = <<1001, 1000>>
    /\ sr = DefaultSr
    /\ spans[1][1] = 187
    /\ spans[2][1] = 16015
    /\ 1187 \in DOMAIN audio_clip.nz
    /\ 17015 \in DOMAIN audio_clip.nz

\* The largest absolute sample value of an array.
ArrMaxAbs(a) ==
    LET magnitudes == [a EXCEPT !.nz = [i \in DOMAIN a.nz |-> RAbs(a.nz[i])]]
    IN  ArrMax(magnitudes)

\* The contribution of a note as the claim words it: its audio under the
\* envelope, peak-normalized (divided by its largest absolute value), and
\* scaled by velocity / 127.
PeakContribution(note) ==
    LET env == NoteEnvelope(note)
        audio_note == MulEnvelope(SliceTo(note.audio, env.len), env)
    IN  ArrScale(ArrDiv(audio_note, ArrMaxAbs(audio_note)),
                 VelocityGain(note.vel))

\* The sum of what the first n of the contributions c add to sample i.
RECURSIVE SumContributions(_, _, _)
SumContributions(c, n, i) ==
    IF n = 0 THEN Zero
    ELSE RAdd(At(c[n], i - spans[n][1]), SumContributions(c, n - 1, i))

\* The samples of the clip that a non-zero sample of a contribution falls on.
Covered(c) ==
    UNION {{spans[k][1] + j : j \in DOMAIN c[k].nz} : k \in DOMAIN c}

\* The clip after the note audio c was overlaid in the order p.
RECURSIVE MixInOrder(_, _, _)
MixInOrder(c, p, n) ==
    IF n = 0 THEN ArrZeros(audio_clip.len)
    ELSE Overlay(MixInOrder(c, p, n - 1), spans[p[n]][1], c[p[n]])

\* C8: for every list of notes, once all are overlaid and before the final
\* normalization, every sample of the clip is the sum of the contributions
\* (enveloped, per-note peak-normalized, scaled by velocity / 127) of the
\* notes that cover it, and 0 where none does; and the clip is the same
\* for every order of the notes.
C8_ClipIsSumOfContributions ==
    (mix_pc = "loop" /\ note_i = Len(notes)) =>
        LET c == [k \in 1..Len(notes) |-> PeakContribution(notes[k])]
            overlaid == [k \in 1..Len(notes) |-> NoteAudio(notes[k])]
        IN  /\ ~audio_clip.nan
            /\ \A i \in Covered(c) \cup DOMAIN audio_clip.nz :
                 At(audio_clip, i) = SumContributions(c, Len(notes), i)
            /\ \A p \in Permutations(1..Len(notes)) :
                 MixInOrder(overlaid, p, Len(notes)) = audio_clip

\* What holds of the overlay at every step of the loop (in runs without a
\* division by zero): every sample of the clip is the sum of the note audio
\* overlaid so far, as lines 96-99 compute it, and 0 where none falls.
OverlaidNotesAddUp ==
    (mix_pc = "loop" /\ ~audio_clip.nan) =>
        LET overlaid == [k \in 1..note_i |-> NoteAudio(notes[k])]
        IN  /\ \A i \in Covered(overlaid) \cup DOMAIN audio_clip.nz :
                 At(audio_clip, i) = SumContributions(overlaid, note_i, i)
            /\ DOMAIN audio_clip.nz \subseteq Covered(overlaid)

NonSilent(note) == DOMAIN note.audio.nz # {}

\* C9: with at least one non-silent note, the clip returned has a largest
\* absolute sample value of exactly 0.5 (so every sample is in [-0.5, 0.5]).
C9_ReturnedPeakIsHalf ==
    (mix_pc = "done" /\ \E k \in 1..Len(notes) : NonSilent(notes[k])) =>
        /\ ~audio_clip.nan
        /\ ArrMaxAbs(audio_clip) = <<1, 2>>

\* C10: for every sample rate and notes with 0 <= start <= end, the span
\* [clip_start, clip_start + len(envelope)) of every note lies inside the
\* clip buffer, so that no overlay fails.
C10_SpansInsideClip ==
    /\ mix_pc # "ValueError"
    /\ \A k \in 1..Len(spans) : spans[k][1] + spans[k][2] <= audio_clip.len

====
